---- MODULE Spec2Model ----
(***************************************************************************)
(* Model of day_02 (src/src/lib.rs): lines of text are parsed into         *)
(* reports (Puzzle::add_report), and safe_reports counts the reports for   *)
(* which Report::is_safe(tolerance) holds.                                 *)
(*                                                                         *)
(* A Vec<u32> is a sequence of naturals, a line is a sequence of           *)
(* one-character strings.  Code indices are 0-based; values[i] of the code *)
(* is values[i + 1] here.  An operation that can panic yields an Outcome:  *)
(* either a boolean result or a panic.                                     *)
(***************************************************************************)
EXTENDS Integers, Sequences, FiniteSets

VARIABLES
    lines,       \* the lines of the input file, or <<>> when a Puzzle is given directly
    tolerance,   \* the tolerance argument
    reports,     \* puzzle.reports: a sequence of reports, each the report's values
    pc,          \* "extract", "safe_reports", "iterate", "done" or "panicked"
    idx,         \* position of the running iterator (1-based)
    safe_count,  \* safe_reports's local counter
    verdicts,    \* the outcome of report.is_safe(tolerance) for each report visited
    returned,    \* the value safe_reports returned, NoValue before
    entry        \* the function called: "find_safe_reports" or "safe_reports"

vars == <<lines, tolerance, reports, pc, idx, safe_count, verdicts, returned, entry>>

(***************************************************************************)
(* Bounds of the model.                                                    *)
(***************************************************************************)
MaxLen == 4        \* longest generated report
MaxValue == 4      \* generated report values are 0..MaxValue
MaxTolerance == 2  \* tolerances are 0..MaxTolerance
MaxReports == 2    \* longest collection drawn from ReportPool
MaxPieces == 3     \* pieces concatenated into a generated line
MaxLines == 2      \* longest collection drawn from LinePool

NoValue == -1

(***************************************************************************)
(* Outcomes.                                                               *)
(***************************************************************************)
Ok(b) == [panic |-> FALSE, value |-> b]
Panicked == [panic |-> TRUE, value |-> FALSE]

(***************************************************************************)
(* u32 and usize helpers.                                                  *)
(***************************************************************************)
AbsDiff(a, b) == IF a < b THEN b - a ELSE a - b

SaturatingSub(a, b) == IF a > b THEN a - b ELSE 0

(***************************************************************************)
(* Report::is_safe_at_index, Report::is_wright_order, Report::is_ascending.*)
(* `len() - 1` on an empty Vec underflows (a panic in a debug build; in a  *)
(* release build it wraps and the following values[index] is out of        *)
(* bounds, a panic too); values[index + 1] past the end panics.            *)
(***************************************************************************)
\* faulty variant: the last index is not exempted, so index + 1 is read past the end
IsSafeAtIndexNoLastCheck(values, index) ==
    IF index + 2 > Len(values) THEN Panicked
    ELSE Ok(AbsDiff(values[index + 1], values[index + 2]) > 0
            /\ AbsDiff(values[index + 1], values[index + 2]) < 4)

\* faulty variant: a step of 4 is accepted
IsSafeAtIndexUpTo4(values, index) ==
    IF Len(values) = 0 THEN Panicked
    ELSE IF index = Len(values) - 1 THEN Ok(TRUE)
    ELSE IF index + 2 > Len(values) THEN Panicked
    ELSE Ok(AbsDiff(values[index + 1], values[index + 2]) > 0
            /\ AbsDiff(values[index + 1], values[index + 2]) <= 4)

IsSafeAtIndex(values, index) ==
    IF Len(values) = 0 THEN Panicked
    ELSE IF index = Len(values) - 1 THEN Ok(TRUE)
    ELSE IF index + 2 > Len(values) THEN Panicked
    ELSE Ok(AbsDiff(values[index + 1], values[index + 2]) > 0
            /\ AbsDiff(values[index + 1], values[index + 2]) < 4)

\* faulty variant: the first two elements are compared the wrong way round
IsAscendingSwapped(values) == Len(values) >= 2 /\ values[2] < values[1]

IsAscending(values) == Len(values) >= 2 /\ values[1] < values[2]

\* faulty variant: the last index is not exempted
IsWrightOrderNoLastCheck(values, index) ==
    IF index + 2 > Len(values) THEN Panicked
    ELSE IF IsAscending(values) THEN Ok(values[index + 2] > values[index + 1])
    ELSE Ok(values[index + 2] < values[index + 1])

IsWrightOrder(values, index) ==
    IF Len(values) = 0 THEN Panicked
    ELSE IF index = Len(values) - 1 THEN Ok(TRUE)
    ELSE IF index + 2 > Len(values) THEN Panicked
    ELSE IF IsAscending(values) THEN Ok(values[index + 2] > values[index + 1])
    ELSE Ok(values[index + 2] < values[index + 1])

(***************************************************************************)
(* The closure of is_safe's all(): is_safe_at_index(i) && is_wright_order(i)*)
(* with the short circuit of &&.                                           *)
(***************************************************************************)
SafeAndOrdered(values, i) ==
    LET a == IsSafeAtIndex(values, i)
    IN  IF a.panic \/ ~a.value THEN a ELSE IsWrightOrder(values, i)

(***************************************************************************)
(* values.iter().enumerate().all(..) from index i on: stops at the first   *)
(* false (or panic).                                                       *)
(***************************************************************************)
RECURSIVE AllFrom(_, _)
AllFrom(values, i) ==
    IF i >= Len(values) THEN Ok(TRUE)
    ELSE LET r == SafeAndOrdered(values, i)
         IN  IF r.panic \/ ~r.value THEN r ELSE AllFrom(values, i + 1)

(***************************************************************************)
(* generate_subsequences: the recursion and its for loop.  `result` is     *)
(* threaded through and returned; `current` is restored by the pop.        *)
(***************************************************************************)
RECURSIVE GenerateSubsequences(_, _, _, _, _)
RECURSIVE GenerateLoop(_, _, _, _, _)
GenerateSubsequences(values, start, length, current, result) ==
    IF Len(current) = length THEN Append(result, current)
    ELSE GenerateLoop(values, start, length, current, result)

GenerateLoop(values, i, length, current, result) ==
    IF i >= Len(values) THEN result
    ELSE GenerateLoop(values, i + 1, length, current,
            GenerateSubsequences(values, i + 1, length,
                                 Append(current, values[i + 1]), result))

\* faulty variant: only contiguous windows are generated
GetSubsequencesContiguous(values, length) ==
    [w \in 1..(IF Len(values) >= length THEN Len(values) - length + 1 ELSE 0) |->
        SubSeq(values, w, w + length - 1)]

GetSubsequences(values, length) ==
    GenerateSubsequences(values, 0, length, <<>>, <<>>)

(***************************************************************************)
(* Report::is_safe.                                                        *)
(***************************************************************************)
RECURSIVE IsSafe(_, _)
RECURSIVE AnyFrom(_, _)
AnyFrom(subsequences, j) ==
    IF j > Len(subsequences) THEN Ok(FALSE)
    ELSE LET r == IsSafe(subsequences[j], 0)
         IN  IF r.panic \/ r.value THEN r ELSE AnyFrom(subsequences, j + 1)

\* faulty variant: the empty report is not rejected
IsSafeNoEmptyCheck(values, tolerance_) ==
    IF tolerance_ = 0 THEN AllFrom(values, 0)
    ELSE LET n == Len(values)
             required_len == SaturatingSub(n, tolerance_)
         IN  AnyFrom(GetSubsequences(values, required_len), 1)

IsSafe(values, tolerance_) ==
    IF Len(values) = 0 THEN Ok(FALSE)
    ELSE IF tolerance_ = 0 THEN AllFrom(values, 0)
    ELSE LET n == Len(values)
             required_len == SaturatingSub(n, tolerance_)
         IN  AnyFrom(GetSubsequences(values, required_len), 1)

(***************************************************************************)
(* str::split_whitespace: the maximal runs of non-whitespace characters,   *)
(* scanned left to right.  `current` is the token being read.              *)
(***************************************************************************)
IsWhitespace(c) == c \in {" ", "\t"}

RECURSIVE SplitFrom(_, _, _, _)
SplitFrom(line, i, current, tokens) ==
    IF i > Len(line)
    THEN IF current = <<>> THEN tokens ELSE Append(tokens, current)
    ELSE IF IsWhitespace(line[i])
    THEN SplitFrom(line, i + 1, <<>>,
                   IF current = <<>> THEN tokens ELSE Append(tokens, current))
    ELSE SplitFrom(line, i + 1, Append(current, line[i]), tokens)

SplitWhitespace(line) == SplitFrom(line, 1, <<>>, <<>>)

(***************************************************************************)
(* str::parse::<u32>: an optional leading "+", then decimal digits         *)
(* accumulated with checked_mul(10) and checked_add(digit); either check   *)
(* failing makes the parse fail.  The accumulator is held in two limbs,    *)
(* result = hi * Limb + lo, so that every u32 can be represented:          *)
(* u32::MAX = 4294967295 = U32MaxHi * Limb + U32MaxLo.                     *)
(***************************************************************************)
Limb == 10 ^ 5
U32MaxHi == 42949
U32MaxLo == 67295

DigitChars == <<"0", "1", "2", "3", "4", "5", "6", "7", "8", "9">>

IsDigit(c) == \E d \in 1..10 : DigitChars[d] = c

ToDigit(c) == (CHOOSE d \in 1..10 : DigitChars[d] = c) - 1

Err == [ok |-> FALSE, value |-> 0]

RECURSIVE ParseDigits(_, _, _, _)
ParseDigits(digits, i, hi, lo) ==
    IF i > Len(digits) THEN [ok |-> TRUE, value |-> hi * Limb + lo]
    ELSE IF ~IsDigit(digits[i]) THEN Err
    ELSE LET low == lo * 10 + ToDigit(digits[i])
             hi2 == hi * 10 + (low \div Limb)
             lo2 == low % Limb
         IN  IF hi2 > U32MaxHi \/ (hi2 = U32MaxHi /\ lo2 > U32MaxLo) THEN Err
             ELSE ParseDigits(digits, i + 1, hi2, lo2)

ParseU32(src) ==
    IF src = <<>> THEN Err
    ELSE IF Len(src) = 1 /\ src[1] \in {"+", "-"} THEN Err
    ELSE IF src[1] = "+" THEN ParseDigits(Tail(src), 1, 0, 0)
    ELSE ParseDigits(src, 1, 0, 0)

(***************************************************************************)
(* The `numbers` of Puzzle::add_report: filter_map over the tokens keeps   *)
(* the value of every token that parses.                                   *)
(***************************************************************************)
RECURSIVE FilterMapParse(_, _)
FilterMapParse(tokens, j) ==
    IF j > Len(tokens) THEN <<>>
    ELSE LET r == ParseU32(tokens[j])
         IN  IF r.ok THEN <<r.value>> \o FilterMapParse(tokens, j + 1)
             ELSE FilterMapParse(tokens, j + 1)

\* faulty variant of FilterMapParse: take_while instead of filter_map
RECURSIVE TakeWhileParse(_, _)
TakeWhileParse(tokens, j) ==
    IF j > Len(tokens) THEN <<>>
    ELSE LET r == ParseU32(tokens[j])
         IN  IF r.ok THEN <<r.value>> \o TakeWhileParse(tokens, j + 1)
             ELSE <<>>

\* faulty variant: parsing stops at the first token that does not parse
NumbersStopAtInvalid(line) == TakeWhileParse(SplitWhitespace(line), 1)

Numbers(line) == FilterMapParse(SplitWhitespace(line), 1)

(***************************************************************************)
(* safe_reports's closure body: the counter after one report.              *)
(***************************************************************************)
\* faulty variant: every report is counted
NextSafeCountAlways(count, verdict) == count + 1

NextSafeCount(count, verdict) == IF verdict.value THEN count + 1 ELSE count

(***************************************************************************)
(* Inputs.                                                                 *)
(***************************************************************************)
BoundedSeqs(S, n) == UNION {[1..k -> S] : k \in 0..n}

RECURSIVE Concat(_, _)
Concat(pieces, j) ==
    IF j > Len(pieces) THEN <<>> ELSE pieces[j] \o Concat(pieces, j + 1)

\* "4294967296", u32::MAX + 1
TooBig == <<"4", "2", "9", "4", "9", "6", "7", "2", "9", "6">>

Pieces == {<<" ">>, <<"\t">>, <<"0">>, <<"1">>, <<"3">>, <<"+">>, <<"-">>, <<"a">>, TooBig}

GenLines == {Concat(ps, 1) : ps \in BoundedSeqs(Pieces, MaxPieces)}

LinePool ==
    { <<>>,
      <<"1", " ", "3">>,
      <<"a", " ", "b">>,
      <<" ", "3", " ", " ", "1", "x", " ", "1", " ">>,
      <<"1", " ", "2", "\t", "4">> }

\* tests/resources/puzzle.txt, as src/tests/component_test.rs and
\* tests::should_extract_puzzle read it
SampleLines ==
    << <<"7", " ", "6", " ", "4", " ", "2", " ", "1">>,
       <<"1", " ", "2", " ", "7", " ", "8", " ", "9">>,
       <<"9", " ", "7", " ", "6", " ", "2", " ", "1">>,
       <<"1", " ", "3", " ", "2", " ", "4", " ", "5">>,
       <<"8", " ", "6", " ", "4", " ", "4", " ", "1">>,
       <<"1", " ", "3", " ", "6", " ", "7", " ", "9">> >>

SampleReports ==
    << <<7, 6, 4, 2, 1>>, <<1, 2, 7, 8, 9>>, <<9, 7, 6, 2, 1>>,
       <<1, 3, 2, 4, 5>>, <<8, 6, 4, 4, 1>>, <<1, 3, 6, 7, 9>> >>

LineInputs ==
    {SampleLines} \cup {<<l>> : l \in GenLines} \cup BoundedSeqs(LinePool, MaxLines)

GenReports == BoundedSeqs(0..MaxValue, MaxLen)

\* the reports of the unit tests of src/src/lib.rs, and two more
ReportPool ==
    { <<>>, <<5>>, <<1, 3>>, <<1, 2>>, <<1, 5>>, <<1, 1>>, <<1, 3, 1>>, <<1, 3, 2>> }

TestReports ==
    { <<1, 7, 6, 3, 1>>, <<9, 7, 6, 5, 1>>, <<9, 7, 6, 2, 1>> }

ReportInputs ==
    {<<r>> : r \in GenReports \cup TestReports} \cup BoundedSeqs(ReportPool, MaxReports)

(***************************************************************************)
(* The state machine.                                                      *)
(***************************************************************************)
\* find_safe_reports(input_path, tolerance): the file's lines are read
InitFind ==
    /\ entry = "find_safe_reports"
    /\ lines \in LineInputs
    /\ reports = <<>>
    /\ pc = "extract"

\* safe_reports(&puzzle, tolerance) on a Puzzle built by the caller
InitDirect ==
    /\ entry = "safe_reports"
    /\ lines = <<>>
    /\ reports \in ReportInputs
    /\ pc = "safe_reports"

Init ==
    /\ tolerance \in 0..MaxTolerance
    /\ idx = 1
    /\ safe_count = NoValue
    /\ verdicts = <<>>
    /\ returned = NoValue
    /\ (InitFind \/ InitDirect)

\* one turn of extract_puzzle's for_each: puzzle.add_report(line)
AddReport ==
    /\ pc = "extract"
    /\ idx <= Len(lines)
    /\ reports' = Append(reports, Numbers(lines[idx]))
    /\ idx' = idx + 1
    /\ UNCHANGED <<lines, tolerance, pc, safe_count, verdicts, returned, entry>>

\* extract_puzzle returns the puzzle; find_safe_reports calls safe_reports
ExtractDone ==
    /\ pc = "extract"
    /\ idx > Len(lines)
    /\ pc' = "safe_reports"
    /\ idx' = 1
    /\ UNCHANGED <<lines, tolerance, reports, safe_count, verdicts, returned, entry>>

\* safe_reports: the early return on an empty collection
SafeReportsEmpty ==
    /\ pc = "safe_reports"
    /\ reports = <<>>
    /\ returned' = 0
    /\ pc' = "done"
    /\ UNCHANGED <<lines, tolerance, reports, idx, safe_count, verdicts, entry>>

\* safe_reports: let mut safe_count = 0 and the start of the iteration
SafeReportsBegin ==
    /\ pc = "safe_reports"
    /\ reports # <<>>
    /\ safe_count' = 0
    /\ idx' = 1
    /\ pc' = "iterate"
    /\ UNCHANGED <<lines, tolerance, reports, verdicts, returned, entry>>

\* one turn of safe_reports's for_each; a panic in is_safe unwinds
CountReport ==
    /\ pc = "iterate"
    /\ idx <= Len(reports)
    /\ LET verdict == IsSafe(reports[idx], tolerance)
       IN  /\ verdicts' = Append(verdicts, verdict)
           /\ IF verdict.panic
              THEN /\ pc' = "panicked"
                   /\ UNCHANGED <<idx, safe_count>>
              ELSE /\ safe_count' = NextSafeCount(safe_count, verdict)
                   /\ idx' = idx + 1
                   /\ pc' = pc
    /\ UNCHANGED <<lines, tolerance, reports, returned, entry>>

\* safe_reports returns safe_count
SafeReportsReturn ==
    /\ pc = "iterate"
    /\ idx > Len(reports)
    /\ returned' = safe_count
    /\ pc' = "done"
    /\ UNCHANGED <<lines, tolerance, reports, idx, safe_count, verdicts, entry>>

Next ==
    \/ AddReport
    \/ ExtractDone
    \/ SafeReportsEmpty
    \/ SafeReportsBegin
    \/ CountReport
    \/ SafeReportsReturn

Spec == Init /\ [][Next]_vars

(***************************************************************************)
(* The rules the claims state, written without reference to the code.      *)
(***************************************************************************)
\* strictly increasing throughout or strictly decreasing throughout, and
\* every consecutive pair differing by 1, 2 or 3
StrictRule(values) ==
    LET pairs == 1..(Len(values) - 1)
    IN  /\ \/ \A i \in pairs : values[i] < values[i + 1]
           \/ \A i \in pairs : values[i] > values[i + 1]
        /\ \A i \in pairs : \/ values[i + 1] - values[i] \in 1..3
                            \/ values[i] - values[i + 1] \in 1..3

\* the elements of `values` at the indices S, in their original order
Selection(values, S) ==
    [j \in 1..Cardinality(S) |->
        values[CHOOSE i \in S : Cardinality({x \in S : x <= i}) = j]]

\* some selection of exactly k elements obeys the strict rule
SomeSelectionSafe(values, k) ==
    \E S \in SUBSET (1..Len(values)) :
        /\ Cardinality(S) = k
        /\ StrictRule(Selection(values, S))

Visited == 1..Len(verdicts)

(***************************************************************************)
(* C1: for every report of length >= 2, is_safe with tolerance 0 returns   *)
(* true exactly when the sequence is strictly increasing throughout or     *)
(* strictly decreasing throughout and every consecutive pair differs by    *)
(* 1..3.                                                                   *)
(***************************************************************************)
C1_StrictRule ==
    \A k \in Visited :
        (tolerance = 0 /\ Len(reports[k]) >= 2)
            => verdicts[k] = Ok(StrictRule(reports[k]))

C1_Witness ==
    \E k \in Visited :
        /\ tolerance = 0
        /\ Len(reports[k]) >= 3
        /\ reports[k][1] > reports[k][2]
        /\ verdicts[k] = Ok(TRUE)

(***************************************************************************)
(* C2: for every report of length n and tolerance t with 0 < t < n,        *)
(* is_safe(t) returns true exactly when at least one order-preserving      *)
(* selection of exactly n - t elements satisfies the strict rule.          *)
(***************************************************************************)
C2_SomeSelection ==
    \A k \in Visited :
        (0 < tolerance /\ tolerance < Len(reports[k]))
            => verdicts[k] =
                   Ok(SomeSelectionSafe(reports[k], Len(reports[k]) - tolerance))

\* a report that passes only by removing an inner element, and not the strict rule
C2_Witness ==
    \E k \in Visited :
        /\ tolerance = 1
        /\ Len(reports[k]) >= 4
        /\ verdicts[k] = Ok(TRUE)
        /\ ~StrictRule(reports[k])
        /\ ~StrictRule(Tail(reports[k]))
        /\ ~StrictRule(SubSeq(reports[k], 1, Len(reports[k]) - 1))

(***************************************************************************)
(* C3: an empty report is classified unsafe for every tolerance, tolerance *)
(* 0 included, and never contributes to the safe count.                    *)
(***************************************************************************)
C3_EmptyUnsafe ==
    /\ \A k \in Visited : reports[k] = <<>> => verdicts[k] = Ok(FALSE)
    /\ pc = "done" =>
           returned <= Cardinality({k \in 1..Len(reports) : reports[k] # <<>>})

C3_Witness ==
    /\ pc = "done"
    /\ tolerance > 0
    /\ \E k \in Visited : reports[k] = <<>>
    /\ \E k \in Visited : reports[k] # <<>> /\ verdicts[k] = Ok(TRUE)

(***************************************************************************)
(* C4 as stated: for every sequence of length 0 or 1, is_safe at tolerance *)
(* 0 returns true.                                                         *)
(***************************************************************************)
C4_ShortIsSafe ==
    \A k \in Visited :
        (tolerance = 0 /\ Len(reports[k]) <= 1) => verdicts[k] = Ok(TRUE)

(***************************************************************************)
(* C4 amended: at tolerance 0, is_safe returns true for every sequence of  *)
(* length 1 and false for the empty sequence.                              *)
(***************************************************************************)
C4_SingleSafeEmptyUnsafe ==
    \A k \in Visited :
        (tolerance = 0 /\ Len(reports[k]) <= 1)
            => verdicts[k] = Ok(Len(reports[k]) = 1)

C4_Witness ==
    /\ tolerance = 0
    /\ \E k \in Visited : Len(reports[k]) = 1 /\ verdicts[k] = Ok(TRUE)

(***************************************************************************)
(* C5: for every non-empty report of length n and tolerance t >= n, the    *)
(* required length is 0, the single empty selection tests as safe and      *)
(* is_safe(t) returns true.                                                *)
(***************************************************************************)
C5_HighToleranceSafe ==
    \A k \in Visited :
        (Len(reports[k]) >= 1 /\ tolerance >= Len(reports[k]))
            => /\ SaturatingSub(Len(reports[k]), tolerance) = 0
               /\ GetSubsequences(reports[k], 0) = << <<>> >>
               /\ verdicts[k] = Ok(TRUE)

(***************************************************************************)
(* C6: if a report is safe at tolerance t, it is safe at every tolerance   *)
(* t' >= t.                                                                *)
(***************************************************************************)
C6_Monotone ==
    \A k \in Visited :
        verdicts[k] = Ok(TRUE)
            => \A t \in tolerance..MaxTolerance : IsSafe(reports[k], t) = Ok(TRUE)

(***************************************************************************)
(* C7: safe_reports returns the number of reports for which is_safe holds: *)
(* 0 for an empty collection, and between 0 and the number of reports.     *)
(***************************************************************************)
C7_CountsSafeReports ==
    pc = "done" =>
        /\ returned =
               Cardinality({k \in 1..Len(reports) : IsSafe(reports[k], tolerance).value})
        /\ returned \in 0..Len(reports)
        /\ reports = <<>> => returned = 0

C7_Witness ==
    /\ pc = "done"
    /\ Len(reports) >= 2
    /\ returned = 1

(***************************************************************************)
(* C10: is_safe never fails: for every report and tolerance it yields a    *)
(* boolean, so is_safe_at_index and is_wright_order never meet an empty    *)
(* list (`len - 1` does not underflow) nor read past the end.              *)
(***************************************************************************)
C10_NeverPanics ==
    /\ pc # "panicked"
    /\ \A k \in Visited : ~verdicts[k].panic

C10_Witness ==
    /\ pc = "done"
    /\ tolerance > 0
    /\ \E k \in Visited : Len(reports[k]) <= 1
    /\ \E k \in Visited : Len(reports[k]) > tolerance /\ ~verdicts[k].panic

(***************************************************************************)
(* C8: the six sample reports give a safe count of 2 at tolerance 0 and of *)
(* 4 at tolerance 1.                                                       *)
(***************************************************************************)
C8_SampleCounts ==
    /\ (lines = SampleLines /\ pc # "extract") => reports = SampleReports
    /\ (reports = SampleReports /\ pc = "done")
           => /\ tolerance = 0 => returned = 2
              /\ tolerance = 1 => returned = 4

C8_Witness ==
    /\ lines = SampleLines
    /\ pc = "done"
    /\ tolerance = 1
    /\ returned = 4

(***************************************************************************)
(* What C9 states, written without reference to the code: the tokens of a  *)
(* line are its maximal whitespace-free spans; a token is a valid u32 when *)
(* it is an optional "+" and at least one decimal digit, and its number is *)
(* at most u32::MAX = 4294967295.                                          *)
(***************************************************************************)
DigitSet == {"0", "1", "2", "3", "4", "5", "6", "7", "8", "9"}

DigitOf(c) ==
    CASE c = "0" -> 0 [] c = "1" -> 1 [] c = "2" -> 2 [] c = "3" -> 3 [] c = "4" -> 4
      [] c = "5" -> 5 [] c = "6" -> 6 [] c = "7" -> 7 [] c = "8" -> 8 [] c = "9" -> 9

U32MaxText == <<4, 2, 9, 4, 9, 6, 7, 2, 9, 5>>

IsTokenSpan(line, a, b) ==
    /\ a <= b
    /\ \A i \in a..b : line[i] \notin {" ", "\t"}
    /\ a = 1 \/ line[a - 1] \in {" ", "\t"}
    /\ b = Len(line) \/ line[b + 1] \in {" ", "\t"}

Unsigned(token) == IF token # <<>> /\ token[1] = "+" THEN Tail(token) ELSE token

\* the digits from the first non-zero digit on
Significant(digits) ==
    LET nz == {i \in 1..Len(digits) : digits[i] # "0"}
    IN  IF nz = {} THEN <<>>
        ELSE SubSeq(digits, CHOOSE i \in nz : \A j \in nz : i <= j, Len(digits))

FitsU32(sig) ==
    \/ Len(sig) < 10
    \/ /\ Len(sig) = 10
       /\ \/ \A i \in 1..10 : DigitOf(sig[i]) = U32MaxText[i]
          \/ \E i \in 1..10 :
                 /\ DigitOf(sig[i]) < U32MaxText[i]
                 /\ \A j \in 1..(i - 1) : DigitOf(sig[j]) = U32MaxText[j]

ValidU32Text(token) ==
    /\ Unsigned(token) # <<>>
    /\ \A i \in 1..Len(Unsigned(token)) : Unsigned(token)[i] \in DigitSet
    /\ FitsU32(Significant(Unsigned(token)))

RECURSIVE PositionalSum(_, _)
PositionalSum(sig, i) ==
    IF i > Len(sig) THEN 0
    ELSE DigitOf(sig[i]) * 10 ^ (Len(sig) - i) + PositionalSum(sig, i + 1)

DecimalValue(token) == PositionalSum(Significant(Unsigned(token)), 1)

ExpectedValues(line) ==
    LET spans == {sp \in (1..Len(line)) \X (1..Len(line)) :
                      /\ IsTokenSpan(line, sp[1], sp[2])
                      /\ ValidU32Text(SubSeq(line, sp[1], sp[2]))}
        nth(j) == CHOOSE sp \in spans : Cardinality({x \in spans : x[1] <= sp[1]}) = j
    IN  [j \in 1..Cardinality(spans) |->
            DecimalValue(SubSeq(line, nth(j)[1], nth(j)[2]))]

(***************************************************************************)
(* C9: parsing produces one report per line, in line order; the values of  *)
(* the i-th report are the tokens of the i-th line that parse as           *)
(* non-negative integers, in order; other tokens are dropped, and a line   *)
(* with no valid token yields an empty report.                             *)
(***************************************************************************)
C9_OneReportPerLine ==
    entry = "find_safe_reports" =>
        /\ pc = "extract" => Len(reports) = idx - 1
        /\ pc # "extract" => Len(reports) = Len(lines)
        /\ \A k \in 1..Len(reports) : reports[k] = ExpectedValues(lines[k])

\* a line with a dropped token before a kept one
C9_Witness ==
    /\ entry = "find_safe_reports"
    /\ pc = "done"
    /\ \E k \in 1..Len(reports) :
           /\ Len(reports[k]) >= 1
           /\ \E sp \in (1..Len(lines[k])) \X (1..Len(lines[k])) :
                  /\ sp[1] = 1
                  /\ IsTokenSpan(lines[k], sp[1], sp[2])
                  /\ ~ValidU32Text(SubSeq(lines[k], sp[1], sp[2]))

====
